---------------------------- MODULE Spec2Model ----------------------------
(***************************************************************************)
(* Model of the media server: the identifier codec (utils/pathUtils.js)   *)
(* and the three request handlers GET /media, GET /media/:id and          *)
(* GET /stream/:id of the express application, running against a small    *)
(* filesystem that other actors may change between the handlers' awaits.  *)
(*                                                                         *)
(* A string is a sequence of characters; a character is a one-character   *)
(* TLA+ string, or an atom "U+xxxx" standing for one character.           *)
(***************************************************************************)
EXTENDS Integers, Sequences, FiniteSets, TLC

\* ------------------------------------------------------------------ bounds

\* Longest path handed to the codec in the codec specification.
MaxLen == 3

\* Longest run of generic digits in the start and end of a Range header.
MaxDigits == 2

\* ------------------------------------------------------- characters, bytes

\* The printable ASCII characters, in code order starting at code 32.
Ascii ==
  << " ", "!", "\"", "#", "$", "%", "&", "'", "(", ")", "*", "+", ",", "-", ".", "/",
     "0", "1", "2", "3", "4", "5", "6", "7", "8", "9", ":", ";", "<", "=", ">", "?",
     "@", "A", "B", "C", "D", "E", "F", "G", "H", "I", "J", "K", "L", "M", "N", "O",
     "P", "Q", "R", "S", "T", "U", "V", "W", "X", "Y", "Z", "[", "\\", "]", "^", "_",
     "U+0060", "a", "b", "c", "d", "e", "f", "g", "h", "i", "j", "k", "l", "m", "n", "o",
     "p", "q", "r", "s", "t", "u", "v", "w", "x", "y", "z", "{", "|", "}", "~" >>

AsciiChars == {Ascii[i] : i \in 1..Len(Ascii)}

\* Code point of each character of the model.
OrdTable ==
  [c \in AsciiChars \cup { "U+00E9", "U+20AC", "U+FFFD" } |->
     CASE c = "U+00E9" -> 233
       [] c = "U+20AC" -> 8364
       [] c = "U+FFFD" -> 65533
       [] OTHER -> 31 + (CHOOSE i \in 1..Len(Ascii) : Ascii[i] = c)]

\* Code point of a character (JavaScript's charCodeAt for the BMP).
Ord(c) == OrdTable[c]

\* Character of a code point; what the model has no atom for is "U+FFFD".
Chr(n) ==
  CASE n >= 32 /\ n <= 126 -> Ascii[n - 31]
    [] n = 233 -> "U+00E9"
    [] n = 8364 -> "U+20AC"
    [] OTHER -> "U+FFFD"

\* The concatenation of a sequence of sequences.
RECURSIVE Flatten(_)
Flatten(ss) == IF ss = << >> THEN << >> ELSE Head(ss) \o Flatten(Tail(ss))

\* Buffer.from(str, 'utf8'): the UTF-8 bytes of one code point.
Utf8EncodeChar(cp) ==
  IF cp < 128 THEN << cp >>
  ELSE IF cp < 2048 THEN << 192 + (cp \div 64), 128 + (cp % 64) >>
  ELSE << 224 + (cp \div 4096), 128 + ((cp \div 64) % 64), 128 + (cp % 64) >>

Utf8Encode(str) == Flatten([i \in 1..Len(str) |-> Utf8EncodeChar(Ord(str[i]))])

IsCont(b) == b >= 128 /\ b <= 191

\* buf.toString('utf8'): a well-formed sequence gives its character, any other
\* byte gives U+FFFD and decoding resumes at the next byte.
RECURSIVE Utf8Decode(_)
Utf8Decode(bytes) ==
  IF bytes = << >> THEN << >>
  ELSE LET b1 == bytes[1]
           n  == Len(bytes)
           cp2 == (b1 - 192) * 64 + (bytes[2] - 128)
           cp3 == (b1 - 224) * 4096 + (bytes[2] - 128) * 64 + (bytes[3] - 128)
       IN  IF b1 < 128 THEN << Chr(b1) >> \o Utf8Decode(Tail(bytes))
           ELSE IF b1 >= 194 /\ b1 <= 223 /\ n >= 2 /\ IsCont(bytes[2])
             THEN << Chr(cp2) >> \o Utf8Decode(SubSeq(bytes, 3, n))
           ELSE IF b1 >= 224 /\ b1 <= 239 /\ n >= 3 /\ IsCont(bytes[2])
                   /\ IsCont(bytes[3]) /\ cp3 >= 2048
                   /\ ~(cp3 >= 55296 /\ cp3 <= 57343)
             THEN << Chr(cp3) >> \o Utf8Decode(SubSeq(bytes, 4, n))
           ELSE << "U+FFFD" >> \o Utf8Decode(Tail(bytes))

\* ------------------------------------------------------------------ base64

\* The standard base64 alphabet, value v at index v + 1.
B64 ==
  << "A", "B", "C", "D", "E", "F", "G", "H", "I", "J", "K", "L", "M", "N", "O", "P",
     "Q", "R", "S", "T", "U", "V", "W", "X", "Y", "Z", "a", "b", "c", "d", "e", "f",
     "g", "h", "i", "j", "k", "l", "m", "n", "o", "p", "q", "r", "s", "t", "u", "v",
     "w", "x", "y", "z", "0", "1", "2", "3", "4", "5", "6", "7", "8", "9", "+", "/" >>

\* buf.toString('base64'): three bytes give four characters, a last group of
\* one or two bytes is padded with "=".
RECURSIVE Base64Encode(_)
Base64Encode(bytes) ==
  LET n == Len(bytes)
      E(v) == B64[v + 1]
  IN  IF n = 0 THEN << >>
      ELSE IF n = 1
        THEN << E(bytes[1] \div 4), E((bytes[1] % 4) * 16), "=", "=" >>
      ELSE IF n = 2
        THEN << E(bytes[1] \div 4),
                E((bytes[1] % 4) * 16 + (bytes[2] \div 16)),
                E((bytes[2] % 16) * 4), "=" >>
      ELSE << E(bytes[1] \div 4),
              E((bytes[1] % 4) * 16 + (bytes[2] \div 16)),
              E((bytes[2] % 16) * 4 + (bytes[3] \div 64)),
              E(bytes[3] % 64) >> \o Base64Encode(SubSeq(bytes, 4, n))

\* Value of each character for the base64 decoder, which also takes the
\* URL-safe "-" and "_"; -1 for a character that is not part of any alphabet.
Unbase64Table ==
  [c \in AsciiChars \cup { "U+00E9", "U+20AC", "U+FFFD" } |->
     IF c = "-" THEN 62
     ELSE IF c = "_" THEN 63
     ELSE IF \E i \in 1..64 : B64[i] = c THEN (CHOOSE i \in 1..64 : B64[i] = c) - 1
     ELSE -1]

Unbase64(c) == Unbase64Table[c]

\* The values of the characters up to the first "=", illegal characters skipped.
RECURSIVE Sextets(_)
Sextets(s) ==
  IF s = << >> \/ Head(s) = "=" THEN << >>
  ELSE IF Unbase64(Head(s)) < 0 THEN Sextets(Tail(s))
  ELSE << Unbase64(Head(s)) >> \o Sextets(Tail(s))

RECURSIVE SextetsToBytes(_)
SextetsToBytes(v) ==
  LET n == Len(v)
  IN  IF n < 2 THEN << >>
      ELSE IF n = 2 THEN << v[1] * 4 + (v[2] \div 16) >>
      ELSE IF n = 3
        THEN << v[1] * 4 + (v[2] \div 16), (v[2] % 16) * 16 + (v[3] \div 4) >>
      ELSE << v[1] * 4 + (v[2] \div 16),
              (v[2] % 16) * 16 + (v[3] \div 4),
              (v[3] % 4) * 64 + v[4] >> \o SextetsToBytes(SubSeq(v, 5, n))

\* Buffer.from(base64, 'base64')
Base64Decode(s) == SextetsToBytes(Sextets(s))

\* str.replace(/c/g, d)
ReplaceAll(s, c, d) == [i \in 1..Len(s) |-> IF s[i] = c THEN d ELSE s[i]]

\* str.replace(/=+$/, '')
RECURSIVE StripPadding(_)
StripPadding(s) ==
  IF s # << >> /\ s[Len(s)] = "=" THEN StripPadding(SubSeq(s, 1, Len(s) - 1)) ELSE s

\* '='.repeat(n)
RepeatEq(n) == [i \in 1..n |-> "="]

\* A codec that maps "/" to "-" as well, so "+" and "/" collide in the token.
ToBase64UrlColliding(str) ==
  StripPadding(ReplaceAll(ReplaceAll(Base64Encode(Utf8Encode(str)), "+", "-"), "/", "-"))

toBase64Url(str) ==
  StripPadding(ReplaceAll(ReplaceAll(Base64Encode(Utf8Encode(str)), "+", "-"), "/", "_"))

fromBase64Url(b64) ==
  LET pad == IF Len(b64) % 4 = 0 THEN << >> ELSE RepeatEq(4 - (Len(b64) % 4))
      base64 == ReplaceAll(ReplaceAll(b64, "-", "+"), "_", "/") \o pad
  IN  Utf8Decode(Base64Decode(base64))

\* -------------------------------------------------------------------- path

\* str.toLowerCase(), on the characters of the model
ToLowerCase(s) ==
  [i \in 1..Len(s) |->
     IF Ord(s[i]) >= 65 /\ Ord(s[i]) <= 90 THEN Chr(Ord(s[i]) + 32) ELSE s[i]]

\* s.split(sep) for a one-character separator: the segments between separators.
RECURSIVE SplitAcc(_, _, _)
SplitAcc(s, sep, cur) ==
  IF s = << >> THEN << cur >>
  ELSE IF Head(s) = sep THEN << cur >> \o SplitAcc(Tail(s), sep, << >>)
  ELSE SplitAcc(Tail(s), sep, Append(cur, Head(s)))

Split(s, sep) == SplitAcc(s, sep, << >>)

\* Index of the last occurrence of c in s, 0 when there is none.
LastIndexOf(s, c) ==
  IF \E i \in 1..Len(s) : s[i] = c
    THEN CHOOSE i \in 1..Len(s) : s[i] = c /\ \A j \in (i + 1)..Len(s) : s[j] # c
    ELSE 0

\* The last non-empty segment of a path string (trailing slashes ignored).
RECURSIVE LastSegment(_)
LastSegment(segs) ==
  IF segs = << >> THEN << >>
  ELSE IF segs[Len(segs)] # << >> THEN segs[Len(segs)]
  ELSE LastSegment(SubSeq(segs, 1, Len(segs) - 1))

\* path.extname(p): from the last "." of the last segment to its end; empty
\* when there is no ".", when the only "." starts the segment, and for "..".
extname(p) ==
  LET base == LastSegment(Split(p, "/"))
      dot  == LastIndexOf(base, ".")
  IN  IF dot <= 1 \/ base = << ".", "." >> THEN << >>
      ELSE SubSeq(base, dot, Len(base))

\* The lexical normalisation of path.join/path.normalize on the segments of
\* an absolute path: "" and "." are dropped, ".." removes the segment before
\* it and is itself dropped at the root.
RECURSIVE NormalizeSegs(_, _)
NormalizeSegs(segs, acc) ==
  IF segs = << >> THEN acc
  ELSE LET h == Head(segs)
       IN  IF h = << >> \/ h = << "." >> THEN NormalizeSegs(Tail(segs), acc)
           ELSE IF h = << ".", "." >>
             THEN NormalizeSegs(Tail(segs),
                                IF acc = << >> THEN acc
                                ELSE SubSeq(acc, 1, Len(acc) - 1))
           ELSE NormalizeSegs(Tail(segs), Append(acc, h))

\* path.join(dir, name) for an absolute, normalised dir given by its segments:
\* the segments of the result, and whether it keeps a trailing "/".
PathJoin(dir, name) ==
  LET segs == NormalizeSegs(Split(name, "/"), dir)
  IN  [segs  |-> segs,
       slash |-> name # << >> /\ name[Len(name)] = "/" /\ segs # << >>]

\* The segments of a path joined by "/".
RECURSIVE JoinSegs(_)
JoinSegs(segs) ==
  IF segs = << >> THEN << >>
  ELSE IF Len(segs) = 1 THEN segs[1]
  ELSE segs[1] \o << "/" >> \o JoinSegs(Tail(segs))

\* path.relative(from, to) for a path `to` below `from`.
PathRelative(from, to) == JoinSegs(SubSeq(to, Len(from) + 1, Len(to)))

\* -------------------------------------------------------------- filesystem

VARIABLES
  removed,     \* paths of the files another actor has deleted
  unreadable,  \* paths of the directories whose listing fails (readdir throws)
  pc,          \* "idle", "listing" (inside listMedia), "done"
  req,         \* the request being served
  stack,       \* the active listMedia calls, innermost last
  response,    \* what the handler sent
  fsLog,       \* the resolved paths the handler handed to a filesystem call
  failed,      \* history: the directories whose readdir threw in this listing
  cIn,         \* codec: the path given to toBase64Url
  cTok,        \* codec: the token
  cOut,        \* codec: the decoded path
  cpc          \* codec: "in", "encoded", "decoded"

vars ==
  << removed, unreadable, pc, req, stack, response, fsLog, failed, cIn, cTok, cOut, cpc >>

serverVars == << removed, unreadable, pc, req, stack, response, fsLog, failed >>

codecVars == << cIn, cTok, cOut, cpc >>

\* path.resolve(process.env.MEDIA_DIR): here /srv/m
MEDIA_DIR == << << "s", "r", "v" >>, << "m" >> >>

\* The extensions listed as video
VIDEO_EXTS ==
  { << ".", "m", "p", "4" >>, << ".", "m", "k", "v" >>, << ".", "a", "v", "i" >>,
    << ".", "m", "o", "v" >>, << ".", "m", "4", "v" >>, << ".", "w", "e", "b", "m" >> }

SubDir == MEDIA_DIR \o << << "s", "u", "b" >> >>

DeepDir == SubDir \o << << "d" >> >>

ClipsDir == MEDIA_DIR \o << << "x", ".", "a", "v", "i" >> >>

FileA == MEDIA_DIR \o << << "a", ".", "m", "p", "4" >> >>

FileC == DeepDir \o << << "c", ".", "w", "e", "b", "m" >> >>

\* The files and directories of the machine, in the order readdir lists them:
\*   /srv/key.mp4            a video outside the media root
\*   /srv/m/a.mp4  /srv/m/notes.txt  /srv/m/.mp4  /srv/m/pipe.mov (a fifo)
\*   /srv/m/x.avi/ (a directory)  /srv/m/x.avi/e.m4v
\*   /srv/m/sub/b.MKV (empty)  /srv/m/sub/d/c.webm
Tree ==
  << [path |-> << << "s", "r", "v" >> >>, kind |-> "dir", size |-> 4096],
     [path |-> << << "s", "r", "v" >>, << "k", "e", "y", ".", "m", "p", "4" >> >>,
      kind |-> "file", size |-> 7],
     [path |-> MEDIA_DIR, kind |-> "dir", size |-> 4096],
     [path |-> MEDIA_DIR \o << << "n", "o", "t", "e", "s", ".", "t", "x", "t" >> >>,
      kind |-> "file", size |-> 5],
     [path |-> SubDir, kind |-> "dir", size |-> 4096],
     [path |-> FileA, kind |-> "file", size |-> 1000],
     [path |-> MEDIA_DIR \o << << ".", "m", "p", "4" >> >>, kind |-> "file", size |-> 2],
     [path |-> MEDIA_DIR \o << << "p", "i", "p", "e", ".", "m", "o", "v" >> >>,
      kind |-> "fifo", size |-> 0],
     [path |-> ClipsDir, kind |-> "dir", size |-> 4096],
     [path |-> ClipsDir \o << << "e", ".", "m", "4", "v" >> >>, kind |-> "file", size |-> 4],
     [path |-> SubDir \o << << "b", ".", "M", "K", "V" >> >>, kind |-> "file", size |-> 0],
     [path |-> DeepDir, kind |-> "dir", size |-> 4096],
     [path |-> FileC, kind |-> "file", size |-> 3] >>

\* The files another actor may delete while the server runs.
Removable == { FileA, FileC }

\* The directories whose permissions vary.
Lockable == { SubDir, DeepDir }

IsPrefix(a, b) == Len(a) <= Len(b) /\ SubSeq(b, 1, Len(a)) = a

\* The node a resolved path names; NoNode when the path does not exist (it was
\* never there, it was removed, or it names a non-directory with a trailing "/").
NoNode == [path |-> << >>, kind |-> "none", size |-> 0]

Lookup(p, rm) ==
  LET hits == { i \in 1..Len(Tree) : Tree[i].path = p.segs /\ p.segs \notin rm }
  IN  IF hits = {} THEN NoNode
      ELSE LET n == Tree[CHOOSE i \in hits : TRUE]
           IN  IF p.slash /\ n.kind # "dir" THEN NoNode ELSE n

\* fs.existsSync(p)
ExistsSync(p, rm) == Lookup(p, rm).kind # "none"

\* fsp.readdir(dir, { withFileTypes: true }): the entries of dir, as
\* [name, kind]; Failed when dir cannot be listed.
Readdir(dir, rm) ==
  LET idx == SelectSeq([i \in 1..Len(Tree) |-> i],
                       LAMBDA i : /\ Len(Tree[i].path) = Len(dir) + 1
                                  /\ IsPrefix(dir, Tree[i].path)
                                  /\ Tree[i].path \notin rm)
  IN  [i \in 1..Len(idx) |->
         [name |-> Tree[idx[i]].path[Len(dir) + 1], kind |-> Tree[idx[i]].kind]]

ReaddirFails(dir, rm, unr) ==
  \/ dir \in unr
  \/ Lookup([segs |-> dir, slash |-> FALSE], rm).kind # "dir"

\* ------------------------------------------------------------ Range header

Digits == { "0", "1", "2", "3", "4", "5", "6", "7", "8", "9" }

BytesEq == << "b", "y", "t", "e", "s", "=" >>

\* The index after the longest run of digits of h that starts at j (\d*).
RECURSIVE DigitRunEnd(_, _)
DigitRunEnd(h, j) ==
  IF j <= Len(h) /\ h[j] \in Digits THEN DigitRunEnd(h, j + 1) ELSE j

LitAt(h, i) == i + 5 <= Len(h) /\ SubSeq(h, i, i + 5) = BytesEq

\* range.match(/bytes=(\d*)-(\d*)/): the leftmost place where "bytes=", a run
\* of digits and "-" follow one another; the groups are the two digit runs.
\* The pattern is not anchored: text before and after the match is ignored.
RangeMatch(h) ==
  LET at == { i \in 1..Len(h) :
                /\ LitAt(h, i)
                /\ DigitRunEnd(h, i + 6) <= Len(h)
                /\ h[DigitRunEnd(h, i + 6)] = "-" }
  IN  IF at = {} THEN [ok |-> FALSE, m1 |-> << >>, m2 |-> << >>]
      ELSE LET i    == CHOOSE k \in at : \A l \in at : k <= l
               dash == DigitRunEnd(h, i + 6)
           IN  [ok |-> TRUE,
                m1 |-> SubSeq(h, i + 6, dash - 1),
                m2 |-> SubSeq(h, dash + 1, DigitRunEnd(h, dash + 1) - 1)]

DigitValue(c) == Ord(c) - Ord("0")

\* parseInt(digits, 10) of a non-empty run of digits
RECURSIVE ParseInt(_)
ParseInt(d) ==
  IF Len(d) = 1 THEN DigitValue(d[1])
  ELSE ParseInt(SubSeq(d, 1, Len(d) - 1)) * 10 + DigitValue(d[Len(d)])

Max(a, b) == IF a >= b THEN a ELSE b

Unsat == [kind |-> "unsat", start |-> 0, end |-> 0]

\* Limit checks that let the window end one byte after the file.
BoundedOffByOne(start, end, fileSize) ==
  IF start < 0 \/ end > fileSize \/ start > end THEN Unsat
  ELSE [kind |-> "window", start |-> start, end |-> end]

\* The limit checks of the handler on a window [start, end].
Bounded(start, end, fileSize) ==
  IF start < 0 \/ end >= fileSize \/ start > end THEN Unsat
  ELSE [kind |-> "window", start |-> start, end |-> end]

\* A suffix window whose start is not clamped at 0.
SuffixStartUnclamped(fileSize, suffix) == fileSize - suffix

\* Math.max(fileSize - suffix, 0)
SuffixStart(fileSize, suffix) == Max(fileSize - suffix, 0)

\* Steps 3 to 5 of the handler on a present Range header: the window it
\* serves, or Unsat.
ResolveRange(range, fileSize) ==
  LET m == RangeMatch(range)
      startNull == m.m1 = << >>
      endNull   == m.m2 = << >>
  IN  IF ~m.ok THEN Unsat
      ELSE IF startNull /\ endNull THEN Unsat
      ELSE IF ~startNull /\ endNull
        THEN Bounded(ParseInt(m.m1), fileSize - 1, fileSize)
      ELSE IF startNull /\ ~endNull
        THEN IF ParseInt(m.m2) = 0 THEN Unsat
             ELSE Bounded(SuffixStart(fileSize, ParseInt(m.m2)), fileSize - 1, fileSize)
      ELSE Bounded(ParseInt(m.m1), ParseInt(m.m2), fileSize)

\* ---------------------------------------------------------------- responses

NoRange == [star |-> FALSE, start |-> 0, end |-> 0, size |-> 0, set |-> FALSE]

NoStream == [open |-> FALSE, path |-> << >>, whole |-> FALSE, start |-> 0, end |-> 0]

\* A response: status 0 stands for no response at all.  contentLength is -1
\* when the handler does not set the header itself.
NoResponse ==
  [status |-> 0, contentRange |-> NoRange, contentLength |-> -1,
   acceptRanges |-> FALSE, stream |-> NoStream, json |-> << >>, error |-> ""]

\* res.status(n).json({ error })
ErrorResponse(n, msg) == [NoResponse EXCEPT !.status = n, !.error = msg]

\* res.json(value)
JsonResponse(value) == [NoResponse EXCEPT !.status = 200, !.json = value]

\* res.set('Content-Range', `bytes */${fileSize}`); res.status(416).end()
Response416(fileSize) ==
  [NoResponse EXCEPT
     !.status = 416,
     !.contentRange = [star |-> TRUE, start |-> 0, end |-> 0, size |-> fileSize,
                       set |-> TRUE]]

\* GET /stream/:id, the whole handler: it has no await, so it runs against
\* one state of the filesystem.
StreamPath(id) == PathJoin(MEDIA_DIR, fromBase64Url(id))

StreamResponse(id, hasRange, range, rm) ==
  LET absPath  == StreamPath(id)
      fileSize == Lookup(absPath, rm).size
      w        == ResolveRange(range, fileSize)
  IN  IF ~ExistsSync(absPath, rm) THEN ErrorResponse(404, "Archivo no encontrado")
      ELSE IF ~hasRange \/ range = << >>
        THEN [NoResponse EXCEPT
                !.status = 200, !.contentLength = fileSize, !.acceptRanges = TRUE,
                !.stream = [open |-> TRUE, path |-> absPath.segs, whole |-> TRUE,
                            start |-> 0, end |-> 0]]
      ELSE IF w.kind = "unsat" THEN Response416(fileSize)
      ELSE [NoResponse EXCEPT
              !.status = 206,
              !.contentRange = [star |-> FALSE, start |-> w.start, end |-> w.end,
                                size |-> fileSize, set |-> TRUE],
              !.acceptRanges = TRUE,
              !.contentLength = (w.end - w.start) + 1,
              !.stream = [open |-> TRUE, path |-> absPath.segs, whole |-> FALSE,
                          start |-> w.start, end |-> w.end]]

\* ------------------------------------------------------------- getMediaById

NoMedia == [found |-> FALSE, id |-> << >>, name |-> << >>, size |-> 0]

\* An extension test that forgets toLowerCase().
HasVideoExtCaseSensitive(name) == extname(name) \in VIDEO_EXTS

\* VIDEO_EXTS.has(path.extname(name).toLowerCase())
HasVideoExt(name) == ToLowerCase(extname(name)) \in VIDEO_EXTS

\* A lookup that forgets the isFile() test.
GetMediaByIdAnyKind(id, rm) ==
  LET fileName == fromBase64Url(id)
      node     == Lookup(PathJoin(MEDIA_DIR, fileName), rm)
  IN  IF node.kind = "none" THEN NoMedia
      ELSE IF ~HasVideoExt(fileName) THEN NoMedia
      ELSE [found |-> TRUE, id |-> id, name |-> fileName, size |-> node.size]

\* getMediaById(id): the metadata, or NoMedia (null) when fsp.stat throws, the
\* target is not a regular file or its extension is not a video's.
getMediaById(id, rm) ==
  LET fileName == fromBase64Url(id)
      node     == Lookup(PathJoin(MEDIA_DIR, fileName), rm)
  IN  IF node.kind = "none" THEN NoMedia
      ELSE IF node.kind # "file" THEN NoMedia
      ELSE IF ~HasVideoExt(fileName) THEN NoMedia
      ELSE [found |-> TRUE, id |-> id, name |-> fileName, size |-> node.size]

\* ------------------------------------------------------------------ inputs

\* The paths clients ask for (a client encodes any string it likes):
\*   a.mp4  sub/b.MKV  sub/d/c.webm  x.avi/e.m4v    videos below the root
\*   notes.txt  .mp4  pipe.mov  sub  x.avi          not a video file
\*   gone.mp4  a.mp4/  /srv/key.mp4                 nothing there
\*   ../key.mp4  sub/../../key.mp4                  above the root
RequestNames ==
  { << "a", ".", "m", "p", "4" >>,
    << "s", "u", "b", "/", "b", ".", "M", "K", "V" >>,
    << "s", "u", "b", "/", "d", "/", "c", ".", "w", "e", "b", "m" >>,
    << "x", ".", "a", "v", "i", "/", "e", ".", "m", "4", "v" >>,
    << "n", "o", "t", "e", "s", ".", "t", "x", "t" >>,
    << ".", "m", "p", "4" >>,
    << "p", "i", "p", "e", ".", "m", "o", "v" >>,
    << "s", "u", "b" >>,
    << "x", ".", "a", "v", "i" >>,
    << "g", "o", "n", "e", ".", "m", "p", "4" >>,
    << "a", ".", "m", "p", "4", "/" >>,
    << "/", "s", "r", "v", "/", "k", "e", "y", ".", "m", "p", "4" >>,
    << ".", ".", "/", "k", "e", "y", ".", "m", "p", "4" >>,
    << "s", "u", "b", "/", ".", ".", "/", ".", ".", "/", "k", "e", "y", ".", "m", "p", "4" >> }

\* The ids of the requests: the tokens of those paths, and a token no encoder
\* produces (it decodes to the empty path).
Ids == { toBase64Url(n) : n \in RequestNames } \cup { << "A" >> }

\* Runs of digits: every run of "0" and "2" up to MaxDigits long, and the
\* numbers around the sizes of the files.
DigitRuns ==
  UNION { [1..k -> { "0", "2" }] : k \in 0..MaxDigits }
    \cup { << "1", "0", "0" >>, << "5", "0", "0" >>, << "9", "9", "9" >>,
           << "1", "0", "0", "0" >>, << "2", "0", "0", "0" >>, << "3", "0", "0", "0" >> }

\* bytes=<a>-<b> for all runs a and b, the empty ones included
ShapedHeaders == { BytesEq \o a \o << "-" >> \o b : a, b \in DigitRuns }

\* bytes=abc   bytes=0-100,200-300   xbytes=0-0   bytes=2-abc   Bytes=0-0
\* bytes 0-0   bytes=0   items=0-2
OtherHeaders ==
  { BytesEq \o << "a", "b", "c" >>,
    BytesEq \o << "0", "-", "1", "0", "0", ",", "2", "0", "0", "-", "3", "0", "0" >>,
    << "x" >> \o BytesEq \o << "0", "-", "0" >>,
    BytesEq \o << "2", "-", "a", "b", "c" >>,
    << "B", "y", "t", "e", "s", "=", "0", "-", "0" >>,
    << "b", "y", "t", "e", "s", " ", "0", "-", "0" >>,
    BytesEq \o << "0" >>,
    << "i", "t", "e", "m", "s", "=", "0", "-", "2" >> }

Headers == ShapedHeaders \cup OtherHeaders

NoRequest == [kind |-> "none", id |-> << >>, hasRange |-> FALSE, range |-> << >>]

\* ------------------------------------------------------------------ actions

Idle ==
  /\ pc = "idle"
  /\ cpc = "off"

\* GET /stream/:id with or without a Range header
GetStream ==
  /\ Idle
  /\ \E id \in Ids, hasRange \in BOOLEAN :
       \E range \in (IF hasRange THEN Headers \cup { << >> } ELSE { << >> }) :
         /\ req' = [kind |-> "stream", id |-> id, hasRange |-> hasRange, range |-> range]
         /\ response' = StreamResponse(id, hasRange, range, removed)
         /\ fsLog' = { StreamPath(id).segs }
  /\ pc' = "done"
  /\ UNCHANGED << removed, unreadable, stack, failed, codecVars >>

\* GET /media/:id; its one await is the stat inside getMediaById
GetMedia ==
  /\ Idle
  /\ \E id \in Ids :
       LET media == getMediaById(id, removed)
       IN  /\ req' = [kind |-> "media", id |-> id, hasRange |-> FALSE, range |-> << >>]
           /\ response' = IF media.found THEN JsonResponse(<< media >>)
                          ELSE ErrorResponse(404, "Archivo no encontrado")
           /\ fsLog' = { PathJoin(MEDIA_DIR, fromBase64Url(id)).segs }
  /\ pc' = "done"
  /\ UNCHANGED << removed, unreadable, stack, failed, codecVars >>

Frame(dir) == [dir |-> dir, entries |-> << >>, items |-> << >>, st |-> "readdir"]

\* GET /media: the handler calls listMedia() on the media root
GetList ==
  /\ Idle
  /\ req' = [kind |-> "list", id |-> << >>, hasRange |-> FALSE, range |-> << >>]
  /\ stack' = << Frame(MEDIA_DIR) >>
  /\ pc' = "listing"
  /\ fsLog' = {}
  /\ failed' = {}
  /\ UNCHANGED << removed, unreadable, response, codecVars >>

Top == stack[Len(stack)]

\* The innermost listMedia call returns `result`: to the call that awaits it,
\* which pushes the result onto its own items, or to the handler, which sends it.
Return(result) ==
  IF Len(stack) = 1
    THEN /\ stack' = << >>
         /\ response' = JsonResponse(result)
         /\ pc' = "done"
    ELSE /\ stack' = [SubSeq(stack, 1, Len(stack) - 1) EXCEPT
                        ![Len(stack) - 1].items = @ \o result]
         /\ UNCHANGED << response, pc >>

\* An exception leaves every listMedia call and rejects the handler's promise:
\* the framework answers 500 or, when it does not handle rejections, nothing.
Throw ==
  /\ stack' = << >>
  /\ pc' = "done"
  /\ \E r \in { NoResponse, ErrorResponse(500, "Internal Server Error") } : response' = r

\* A readdir whose failure is not caught.
ListReaddirUncaught ==
  /\ pc = "listing"
  /\ Top.st = "readdir"
  /\ fsLog' = fsLog \cup { Top.dir }
  /\ failed' = IF ReaddirFails(Top.dir, removed, unreadable)
                 THEN failed \cup { Top.dir } ELSE failed
  /\ IF ReaddirFails(Top.dir, removed, unreadable)
       THEN Throw
       ELSE /\ stack' = [stack EXCEPT ![Len(stack)].entries = Readdir(Top.dir, removed),
                                      ![Len(stack)].st = "loop"]
            /\ UNCHANGED << response, pc >>
  /\ UNCHANGED << removed, unreadable, req, codecVars >>

\* await fsp.readdir(dir) in its try/catch
ListReaddir ==
  /\ pc = "listing"
  /\ Top.st = "readdir"
  /\ fsLog' = fsLog \cup { Top.dir }
  /\ failed' = IF ReaddirFails(Top.dir, removed, unreadable)
                 THEN failed \cup { Top.dir } ELSE failed
  /\ IF ReaddirFails(Top.dir, removed, unreadable)
       THEN Return(Top.items)
       ELSE /\ stack' = [stack EXCEPT ![Len(stack)].entries = Readdir(Top.dir, removed),
                                      ![Len(stack)].st = "loop"]
            /\ UNCHANGED << response, pc >>
  /\ UNCHANGED << removed, unreadable, req, codecVars >>

\* One turn of the for loop up to its next await, or the return after it.
ListLoop ==
  /\ pc = "listing"
  /\ Top.st = "loop"
  /\ IF Top.entries = << >> THEN Return(Top.items)
     ELSE LET dirent == Head(Top.entries)
              full   == Top.dir \o << dirent.name >>
          IN  /\ UNCHANGED << response, pc >>
              /\ IF dirent.kind = "dir"
                   THEN stack' = Append([stack EXCEPT ![Len(stack)].entries = Tail(@)],
                                        Frame(full))
                 ELSE IF dirent.kind # "file" \/ ~HasVideoExt(dirent.name)
                   THEN stack' = [stack EXCEPT ![Len(stack)].entries = Tail(@)]
                 ELSE stack' = [stack EXCEPT ![Len(stack)].st = "stat"]
  /\ UNCHANGED << removed, unreadable, req, fsLog, failed, codecVars >>

\* await fsp.stat(full), outside any try, and the push of the entry
ListStat ==
  /\ pc = "listing"
  /\ Top.st = "stat"
  /\ LET dirent == Head(Top.entries)
         full   == Top.dir \o << dirent.name >>
         node   == Lookup([segs |-> full, slash |-> FALSE], removed)
         rel    == PathRelative(MEDIA_DIR, full)
         item   == [id |-> toBase64Url(rel), name |-> dirent.name, path |-> rel,
                    size |-> node.size]
     IN  /\ fsLog' = fsLog \cup { full }
         /\ IF node.kind = "none" THEN Throw
            ELSE /\ stack' = [stack EXCEPT ![Len(stack)].items = Append(@, item),
                                           ![Len(stack)].entries = Tail(@),
                                           ![Len(stack)].st = "loop"]
                 /\ UNCHANGED << response, pc >>
  /\ UNCHANGED << removed, unreadable, req, failed, codecVars >>

\* The response has gone out; the server waits for the next request.
Finish ==
  /\ pc = "done"
  /\ pc' = "idle"
  /\ req' = NoRequest
  /\ response' = NoResponse
  /\ fsLog' = {}
  /\ failed' = {}
  /\ UNCHANGED << removed, unreadable, stack, codecVars >>

\* Another actor deletes a file, at any moment a handler is not running:
\* before a request, or while listMedia waits on an await.
RemoveFile ==
  /\ pc \in { "idle", "listing" }
  /\ cpc = "off"
  /\ \E f \in Removable \ removed : removed' = removed \cup { f }
  /\ UNCHANGED << unreadable, pc, req, stack, response, fsLog, failed, codecVars >>

\* Another actor takes a directory away from the server (it removes the read
\* permission, or replaces the directory by something that cannot be listed),
\* at any moment a handler is not running.
LockDir ==
  /\ pc \in { "idle", "listing" }
  /\ cpc = "off"
  /\ \E d \in Lockable \ unreadable : unreadable' = unreadable \cup { d }
  /\ UNCHANGED << removed, pc, req, stack, response, fsLog, failed, codecVars >>

\* ------------------------------------------------------------------- codec

\* The characters of the paths given to the codec: "." "/" "a", ">" and "?"
\* (whose bytes give the base64 characters "+" and "/"), and two characters
\* that take two and three bytes.
CodecChars == { ".", "/", "a", ">", "?", "U+00E9", "U+20AC" }

CodecPaths == UNION { [1..k -> CodecChars] : k \in 0..MaxLen }

Encode ==
  /\ cpc = "in"
  /\ cTok' = toBase64Url(cIn)
  /\ cpc' = "encoded"
  /\ UNCHANGED << cIn, cOut, serverVars >>

Decode ==
  /\ cpc = "encoded"
  /\ cOut' = fromBase64Url(cTok)
  /\ cpc' = "decoded"
  /\ UNCHANGED << cIn, cTok, serverVars >>

\* ----------------------------------------------------------- specifications

InitServer ==
  /\ removed = {}
  /\ pc = "idle"
  /\ req = NoRequest
  /\ stack = << >>
  /\ response = NoResponse
  /\ fsLog = {}
  /\ failed = {}

Init ==
  /\ InitServer
  /\ unreadable \in SUBSET Lockable
  /\ cIn = << >> /\ cTok = << >> /\ cOut = << >> /\ cpc = "off"

InitCodec ==
  /\ InitServer
  /\ unreadable = {}
  /\ cIn \in CodecPaths
  /\ cTok = << >> /\ cOut = << >> /\ cpc = "in"

NextServer ==
  \/ GetStream
  \/ GetMedia
  \/ GetList
  \/ ListReaddir
  \/ ListLoop
  \/ ListStat
  \/ Finish

Next ==
  \/ NextServer
  \/ RemoveFile
  \/ LockDir

NextDirs ==
  \/ NextServer
  \/ LockDir

NextCodec ==
  \/ Encode
  \/ Decode

\* The server with other actors deleting files and locking directories.
Spec == Init /\ [][Next]_vars

\* The server with other actors locking directories only.
SpecDirs == Init /\ [][NextDirs]_vars

\* The server on a directory tree nobody changes.
SpecStatic == Init /\ [][NextServer]_vars

\* The codec on every path of CodecPaths.
SpecCodec == InitCodec /\ [][NextCodec]_vars

\* ------------------------------------------------- vocabulary of the claims

\* The allow-list as the specification states it.
StatedExts ==
  { << ".", "m", "p", "4" >>, << ".", "m", "k", "v" >>, << ".", "a", "v", "i" >>,
    << ".", "m", "o", "v" >>, << ".", "m", "4", "v" >>, << ".", "w", "e", "b", "m" >> }

UpperCase == << "A", "B", "C", "D", "E", "F", "G", "H", "I", "J", "K", "L", "M",
                "N", "O", "P", "Q", "R", "S", "T", "U", "V", "W", "X", "Y", "Z" >>

LowerCase == << "a", "b", "c", "d", "e", "f", "g", "h", "i", "j", "k", "l", "m",
                "n", "o", "p", "q", "r", "s", "t", "u", "v", "w", "x", "y", "z" >>

Lowered(c) ==
  IF \E i \in 1..26 : UpperCase[i] = c
    THEN LowerCase[CHOOSE i \in 1..26 : UpperCase[i] = c]
    ELSE c

\* The path or name ends in an extension of the allow-list, in any case, and
\* the extension does not start its last segment.
HasStatedExt(name) ==
  \E e \in StatedExts :
    /\ Len(name) > Len(e)
    /\ name[Len(name) - Len(e)] # "/"
    /\ [i \in 1..Len(e) |-> Lowered(name[Len(name) - Len(e) + i])] = e

InsideRoot(segs) == IsPrefix(MEDIA_DIR, segs)

\* The node an id names: its decoded value joined with the media root.
Target(id) == Lookup(PathJoin(MEDIA_DIR, fromBase64Url(id)), removed)

Served(kind) == pc = "done" /\ req.kind = kind

\* The value of a run of decimal digits.
RECURSIVE Pow10(_)
Pow10(n) == IF n = 0 THEN 1 ELSE 10 * Pow10(n - 1)

DecimalDigits == << "0", "1", "2", "3", "4", "5", "6", "7", "8", "9" >>

RECURSIVE Decimal(_)
Decimal(d) ==
  IF d = << >> THEN 0
  ELSE ((CHOOSE v \in 0..9 : DecimalDigits[v + 1] = Head(d)) * Pow10(Len(d) - 1))
         + Decimal(Tail(d))

\* A header of the single-range grammar bytes=<start>-<end> and its two parts.
HasRangeShape(h) ==
  /\ Len(h) >= 7
  /\ SubSeq(h, 1, 6) = BytesEq
  /\ Cardinality({ i \in 7..Len(h) : h[i] = "-" }) = 1
  /\ \A i \in 7..Len(h) : h[i] = "-" \/ h[i] \in Digits

DashOf(h) == CHOOSE i \in 7..Len(h) : h[i] = "-"

StartPart(h) == SubSeq(h, 7, DashOf(h) - 1)

EndPart(h) == SubSeq(h, DashOf(h) + 1, Len(h))

Grammatical(h) == HasRangeShape(h) /\ ~(StartPart(h) = << >> /\ EndPart(h) = << >>)

\* The window the specification's resolution gives a grammatical header on a
\* file of S bytes; ok is FALSE for Unsatisfiable.
Reference(h, S) ==
  LET a == StartPart(h)
      b == EndPart(h)
      cand == IF a # << >> /\ b # << >> THEN << Decimal(a), Decimal(b) >>
              ELSE IF b = << >> THEN << Decimal(a), S - 1 >>
              ELSE << (IF S - Decimal(b) > 0 THEN S - Decimal(b) ELSE 0), S - 1 >>
      zeroSuffix == a = << >> /\ Decimal(b) = 0
  IN  [ok    |-> ~zeroSuffix /\ cand[1] >= 0 /\ cand[2] < S /\ cand[1] <= cand[2],
       start |-> cand[1],
       end   |-> cand[2]]

\* The id of a.mp4
IdA == toBase64Url(<< "a", ".", "m", "p", "4" >>)

\* ------------------------------------------------------------------ claims

\* C1: path-traversal containment.  When the decoded id joined with the media
\* root resolves outside the media root, GET /stream/:id and GET /media/:id
\* answer 404 or 400 and hand no path outside the root to the filesystem.
C1_TraversalContained ==
  (Served("stream") \/ Served("media")) =>
    /\ \A p \in fsLog : InsideRoot(p)
    /\ ~InsideRoot(PathJoin(MEDIA_DIR, fromBase64Url(req.id)).segs)
         => response.status \in { 400, 404 }

\* C2: a 206 answer serves a window with 0 <= start <= end < fileSize, says so
\* in Content-Range, sets Content-Length to end - start + 1 and opens the read
\* stream on exactly [start, end].
C2_PartialContentWindow ==
  (Served("stream") /\ response.status = 206) =>
    LET S  == Target(req.id).size
        cr == response.contentRange
    IN  /\ 0 <= cr.start /\ cr.start <= cr.end /\ cr.end < S
        /\ cr.set /\ ~cr.star /\ cr.size = S
        /\ response.contentLength = cr.end - cr.start + 1
        /\ response.acceptRanges
        /\ response.stream = [open |-> TRUE, path |-> StreamPath(req.id).segs,
                              whole |-> FALSE, start |-> cr.start, end |-> cr.end]

\* C2's case: the last two bytes of the 1000-byte file, served as bytes 998-999.
C2_Witness ==
  /\ Served("stream") /\ response.status = 206
  /\ req.id = IdA
  /\ response.contentRange.start = 998 /\ response.contentRange.end = 999
  /\ response.contentLength = 2

\* C3: a present (non-empty) Range header that is not exactly of the grammar
\* bytes=<start>-<end> (not both empty) is answered 416 with
\* Content-Range: bytes */<fileSize>, an empty body and no stream; stated for
\* the requests whose id names a video file of the media root.
C3_UngrammaticalRejected ==
  (Served("stream") /\ req.hasRange /\ req.range # << >> /\ ~Grammatical(req.range)
     /\ Target(req.id).kind = "file" /\ HasStatedExt(fromBase64Url(req.id))) =>
    /\ response.status = 416
    /\ response.contentRange = [star |-> TRUE, start |-> 0, end |-> 0,
                                size |-> Target(req.id).size, set |-> TRUE]
    /\ ~response.stream.open
    /\ response.json = << >>

\* C4: on a grammatical Range header the handler accepts or rejects as the
\* reference resolution does, and serves the reference's window.
C4_MatchesReference ==
  (Served("stream") /\ req.hasRange /\ response.status # 404
     /\ Grammatical(req.range)) =>
    LET ref == Reference(req.range, Target(req.id).size)
    IN  IF ref.ok
          THEN /\ response.status = 206
               /\ response.contentRange.start = ref.start
               /\ response.contentRange.end = ref.end
          ELSE response.status = 416

\* C4's case: bytes=-2000 on the 1000-byte file is served as bytes 0-999.
C4_Witness ==
  /\ Served("stream") /\ req.id = IdA
  /\ req.range = BytesEq \o << "-", "2", "0", "0", "0" >>
  /\ response.status = 206
  /\ response.contentRange.start = 0 /\ response.contentRange.end = 999

\* C5: GET /stream/:id answers 200 or 206 only for an existing regular file
\* whose extension is in the allow-list, and 404 for anything else.
C5_StreamsOnlyVideoFiles ==
  Served("stream") =>
    IF Target(req.id).kind = "file" /\ HasStatedExt(fromBase64Url(req.id))
      THEN response.status \in { 200, 206, 416 }
      ELSE response.status = 404 /\ ~response.stream.open

\* C6: getMediaById returns an entry if and only if the decoded id, joined with
\* the media root, stats as a regular file with an allow-listed extension, as
\* the filesystem is at the call; otherwise GET /media/:id answers 404.
C6_LookupIffVideoFile ==
  Served("media") =>
    LET t == Target(req.id)
    IN  IF t.kind = "file" /\ HasStatedExt(fromBase64Url(req.id))
          THEN /\ response.status = 200
               /\ response.json = << [found |-> TRUE, id |-> req.id,
                                      name |-> fromBase64Url(req.id),
                                      size |-> t.size] >>
          ELSE response.status = 404 /\ response.json = << >>

\* C6's case: a.mp4 was there, another actor deleted it, the lookup says 404.
C6_Witness ==
  /\ Served("media") /\ req.id = IdA
  /\ FileA \in removed
  /\ response.status = 404

\* C7: fromBase64Url(toBase64Url(p)) = p, and the token holds no "+", "/" or
\* "=" (only letters, digits, "-" and "_").
C7_RoundTrip ==
  /\ cpc \in { "encoded", "decoded" } =>
       \A i \in 1..Len(cTok) :
         /\ cTok[i] \notin { "+", "/", "=" }
         /\ \/ cTok[i] \in { "-", "_" }
            \/ \E k \in 1..62 : B64[k] = cTok[i]
  /\ cpc = "decoded" => cOut = cIn

\* C7's case: a path whose base64 form holds "/" and needs padding came back.
C7_Witness ==
  /\ cpc = "decoded"
  /\ cIn = << "?", "?", "U+20AC" >>
  /\ \E i \in 1..Len(cTok) : cTok[i] = "_"
  /\ Len(cTok) % 4 # 0

\* The videos listMedia is to report: the regular files below the media root
\* with an allow-listed extension, in directories that can all be read.
Listable ==
  { i \in 1..Len(Tree) :
      /\ Tree[i].kind = "file"
      /\ Tree[i].path \notin removed
      /\ Len(Tree[i].path) > Len(MEDIA_DIR)
      /\ InsideRoot(Tree[i].path)
      /\ HasStatedExt(Tree[i].path[Len(Tree[i].path)])
      /\ \A k \in Len(MEDIA_DIR)..(Len(Tree[i].path) - 1) :
           SubSeq(Tree[i].path, 1, k) \notin unreadable }

RelOf(i) == PathRelative(MEDIA_DIR, Tree[i].path)

C9_UnreadableSubtreeSkipped ==
  (Served("list") /\ failed # {}) =>
    /\ response.status = 200
    /\ response.error = ""
    /\ \A k \in 1..Len(response.json) :
         \A d \in failed :
           ~IsPrefix(PathRelative(MEDIA_DIR, d) \o << "/" >>, response.json[k].path)
    /\ \A i \in Listable :
         \E k \in 1..Len(response.json) : response.json[k].path = RelOf(i)

\* C9's case: the readdir of sub/ failed; a.mp4 and x.avi/e.m4v are listed.
C9_Witness ==
  /\ Served("list") /\ failed = { SubDir }
  /\ response.status = 200
  /\ Len(response.json) = 2

\* C10: when a listed file is deleted before listMedia stats it, the listing
\* still completes with the remaining entries and GET /media still answers.
C10_ListingSurvivesDeletion ==
  Served("list") =>
    /\ response.status = 200
    /\ \A i \in Listable :
         \E k \in 1..Len(response.json) : response.json[k].path = RelOf(i)

=============================================================================
